---- MODULE Spec2Model ----
(***************************************************************************)
(* Model of miniapps/tds-gs/geometry/create_initial_geometry.py: the three *)
(* wall-coordinate functions and main(), which derives the coil layout,    *)
(* accumulates the geometry script statement by statement in `stuff` and   *)
(* writes it to the output file.                                           *)
(*                                                                         *)
(* Lengths are fixed-point integers, one unit = 1e-4: every literal of the *)
(* source has at most four decimals and every half-extent is a multiple of *)
(* 1e-4.  A Python list is a sequence; At(l, k) is the source's l[k].      *)
(***************************************************************************)
EXTENDS Integers, Sequences, FiniteSets, TLC

\* number of runs of main() one behaviour contains
MaxRuns == 2
\* metal-wall coarseness levels a run may be given: 1..MaxLevel
MaxLevel == 3
\* largest coarseness handed to a wall function called on its own
MaxCoarse == 20

VARIABLES
  pc,          \* position of main()
  rr, zr, rl, zl, dz,                 \* layout lists of main()
  rlim, zlim,                         \* metal-wall contour of main()
  stuff,                              \* the accumulated script, a sequence of statements
  count, count_, first_line, key, line_count, i, d,   \* counters and loop indices
  file,        \* the destination meshes/iter_gen_initial.geo
  gid,         \* the handle of the with-statement: "none", "open", "closed"
  opens, writes, closes,              \* how often this run opened, wrote, closed the file
  err,         \* an exception is pending inside the with-block
  run,         \* number of the current run of main()
  file0,       \* the destination as it was when the current run started
  prev,        \* the latest completed earlier run: its output and its wall contour
  call         \* a wall function called on its own: function, argument, result

layoutVars == <<rr, zr, rl, zl, dz>>
wallVars   == <<rlim, zlim>>
cntVars    == <<count, count_, first_line, key, line_count, i, d>>
fileVars   == <<file, gid, opens, writes, closes, err>>
runVars    == <<run, file0, prev>>
vars == <<pc, rr, zr, rl, zl, dz, rlim, zlim, stuff,
          count, count_, first_line, key, line_count, i, d,
          file, gid, opens, writes, closes, err, run, file0, prev, call>>

----------------------------------------------------------------------------
(* Python and numpy primitives *)

At(l, k) == l[k + 1]

Abs(x) == IF x < 0 THEN -x ELSE x

\* np.sign
Sign(x) == IF x < 0 THEN -1 ELSE IF x > 0 THEN 1 ELSE 0

CeilDiv(a, b) == (a + b - 1) \div b

\* "%f": six decimals, i.e. the value in units of 1e-6
Fmt_f(x) == x * 100

\* l[:n] = new, for a list new of n elements
SetPrefix(l, new) == new \o SubSeq(l, Len(new) + 1, Len(l))

\* np.delete(a, idx, 0) for in-range indices: the elements whose index is not in idx
np_delete(a, idx) ==
  LET K == {k \in 0..Len(a) - 1 : k \notin idx}
      nth(j) == CHOOSE k \in K : Cardinality({m \in K : m < k}) = j - 1
  IN  [j \in 1..Cardinality(K) |-> At(a, nth(j))]

\* a[:stop:step] for 0 <= stop <= len(a) and step >= 1
Slice(a, stop, step) == [j \in 1..CeilDiv(stop, step) |-> At(a, (j - 1) * step)]

\* a[k] += x
AddAt(a, k, x) == [a EXCEPT ![k + 1] = @ + x]

----------------------------------------------------------------------------
(* Wall coordinate tables *)

Metal_r ==
  <<
     62670, 72830, 78990, 83060, 83950, 82700, 79040, 74000,
     65870, 57530, 49040, 43110, 41260, 40760, 40460, 40460,
     40670, 40970, 41780, 39579, 40034, 41742, 43257, 44408,
     45066, 45157, 44670, 44064, 44062, 43773, 43115, 42457,
     41799, 44918, 45687, 46456, 48215, 49982, 51496, 52529,
     52628, 52727, 55650, 55650, 55650, 55650, 55720, 55720,
     55720, 55720, 56008, 56842, 58150, 59821, 61710, 63655
  >>

Metal_z ==
  <<
     -30460, -22570, -13420, -4210, 6330, 16810, 24640, 31790,
     38940, 45320, 47120, 43240, 35820, 25660, 15490, 5330,
     -4840, -15000, -25060, -25384, -25384, -25674, -26514, -27808,
     -29410, -31139, -32801, -34043, -34048, -34799, -36148, -37497,
     -38847, -39092, -38276, -37460, -37090, -37414, -38382, -39852,
     -41244, -42636, -45559, -44026, -42494, -40962, -39961, -39956,
     -38960, -38950, -37024, -35265, -33823, -32822, -32350, -32446
  >>

Second_r ==
  <<
     62270, 64090, 65880, 67639, 69365, 71054, 72706, 74318,
     75888, 77414, 78895, 80328, 81712, 83046, 84327, 85554,
     86726, 87840, 88897, 89894, 90830, 91705, 92516, 93264,
     93946, 94563, 95114, 95598, 96014, 96361, 96616, 96771,
     96825, 96777, 96629, 96380, 96031, 95583, 95038, 94396,
     93660, 92900, 92141, 91382, 90623, 89863, 89104, 88345,
     87585, 86826, 86067, 85308, 84548, 83789, 83030, 82270,
     81511, 80681, 79748, 78714, 77584, 76362, 75052, 73659,
     72188, 70645, 69035, 67364, 65638, 63864, 62048, 60196,
     58317, 56415, 54499, 52575, 50651, 48734, 46848, 45011,
     43243, 41561, 39982, 38523, 37199, 36022, 35005, 34159,
     33492, 33010, 32719, 32622, 32622, 32622, 32622, 32622,
     32622, 32622, 32622, 32622, 32622, 32622, 32622, 32622,
     32622, 32622, 32622, 32622, 32622, 32622, 32622, 32622,
     32622, 32622, 32622, 32622, 32622, 32622, 32622, 32622,
     32622, 32622, 32622, 32622, 32622, 32622, 32622, 32622,
     32622, 32622, 32717, 33002, 33473, 34126, 34953, 35948,
     37098, 38394, 39820, 41364, 43008, 44737, 46532, 48274,
     50040, 51820, 53605, 55385, 57151, 58894, 60603, 62270
  >>

Second_z ==
  <<
     54684, 53873, 53000, 52064, 51067, 50011, 48897, 47726,
     46499, 45218, 43885, 42501, 41068, 39588, 38062, 36492,
     34881, 33229, 31540, 29815, 28056, 26266, 24447, 22600,
     20728, 18833, 16919, 14986, 13037, 11076, 9153, 7220,
     5282, 3343, 1410, -513, -2421, -4308, -6169, -7999,
     -9793, -11514, -13235, -14956, -16677, -18398, -20119, -21840,
     -23561, -25282, -27003, -28724, -30445, -32166, -33887, -35608,
     -37329, -39066, -40749, -42373, -43931, -45418, -46828, -48157,
     -49398, -50549, -51604, -52559, -53412, -54158, -54796, -55323,
     -55737, -56036, -56220, -56287, -56238, -56034, -55637, -55052,
     -54285, -53343, -52237, -50977, -49576, -48049, -46411, -44679,
     -42871, -41004, -39099, -37173, -35200, -33226, -31253, -29280,
     -27306, -25333, -23359, -21386, -19412, -17439, -15466, -13492,
     -11519, -9545, -7572, -5599, -3625, -1652, 322, 2295,
     4269, 6242, 8215, 10189, 12162, 14136, 16109, 18083,
     20056, 22029, 24003, 25976, 27950, 29923, 31897, 33870,
     35843, 37817, 39697, 41559, 43382, 45148, 46839, 48438,
     49929, 51295, 52524, 53603, 54520, 55266, 55834, 56223,
     56483, 56614, 56614, 56484, 56224, 55836, 55322, 54684
  >>

First_r ==
  <<
     35396, 35396, 35396, 35396, 35396, 35396, 35396, 35396,
     35396, 35396, 35396, 35396, 35396, 35396, 35396, 35396,
     35396, 35396, 35396, 35514, 35869, 36453, 37260, 38276,
     39489, 40878, 42425, 44107, 45899, 47775, 49708, 51670,
     53631, 55564, 57440, 59232, 60913, 62474, 64034, 65595,
     67156, 68716, 70315, 71867, 73371, 74825, 76226, 77572,
     78861, 80092, 81262, 82370, 83413, 84391, 85302, 86145,
     86918, 87619, 88249, 88764, 89166, 89453, 89638, 89768,
     89844, 89865, 89832, 89744, 89602, 89364, 88985, 88468,
     87817, 87023, 86228, 85433, 84638, 83844, 83049, 82254,
     81459, 80665, 79870, 79075, 78280, 77486, 76691, 75896,
     75102, 74307, 73458, 72486, 71396, 70195, 68888, 67483,
     65988, 64411, 62762, 61048, 59281, 57469, 55623, 53753,
     51869, 49897, 47949, 46054, 44242, 42538, 40969, 39558,
     38327, 37293, 36472, 35877, 35516, 35396, 35396, 35396,
     35396, 35396, 35396, 35396, 35396, 35396, 35396, 35396,
     35396, 35396, 35396, 35396, 35396, 35396, 35396
  >>

First_z ==
  <<
     307, 2278, 4250, 6221, 8192, 10164, 12135, 14106,
     16078, 18049, 20020, 21992, 23963, 25935, 27906, 29877,
     31849, 33820, 35791, 37753, 39686, 41562, 43354, 45035,
     46582, 47971, 49183, 50200, 51006, 51590, 51944, 52062,
     51943, 51589, 51004, 50197, 49180, 48102, 47024, 45946,
     44868, 43790, 42640, 41429, 40158, 38830, 37446, 36009,
     34521, 32984, 31400, 29772, 28102, 26393, 24647, 22867,
     21056, 19216, 17351, 15529, 13679, 11809, 10073, 8333,
     6590, 4845, 3100, 1357, -382, -2088, -3768, -5411,
     -7006, -8743, -10480, -12217, -13954, -15691, -17428, -19166,
     -20903, -22640, -24377, -26114, -27851, -29588, -31325, -33062,
     -34799, -36536, -38222, -39840, -41380, -42835, -44196, -45456,
     -46608, -47645, -48561, -49352, -50013, -50540, -50931, -51183,
     -51295, -51217, -50899, -50345, -49564, -48567, -47369, -45989,
     -44446, -42765, -40970, -39088, -37148, -35178, -33206, -31235,
     -29264, -27292, -25321, -23349, -21378, -19407, -17435, -15464,
     -13493, -11521, -9550, -7579, -5607, -3636, -1665
  >>

\* the level-3 list without its last index
points_to_delete_short(return_coarse) ==
  IF return_coarse = 2 THEN {20, 28, 44, 46, 48}
  ELSE IF return_coarse = 3
       THEN {20, 21, 23, 25, 27, 28, 29, 30, 31, 34, 36, 38,
             40, 43, 44, 45, 46, 47, 49, 50, 52}
       ELSE {}

\* points_to_delete of _VacuumVesselMetalWallCoordinates
points_to_delete(return_coarse) ==
  IF return_coarse = 2 THEN {20, 28, 44, 46, 48}
  ELSE IF return_coarse = 3
       THEN {20, 21, 23, 25, 27, 28, 29, 30, 31, 34, 36, 38,
             40, 43, 44, 45, 46, 47, 49, 50, 52, 54}
       ELSE {}

\* z[18] += 0.2 for the levels 2 and 3
RaisedZ(return_coarse) ==
  IF return_coarse \in {2, 3} THEN AddAt(Metal_z, 18, 2000) ELSE Metal_z

VacuumVesselMetalWallCoordinates(return_coarse) ==
  IF return_coarse \in {2, 3}
  THEN [r |-> np_delete(Metal_r, points_to_delete(return_coarse)),
        z |-> np_delete(RaisedZ(return_coarse), points_to_delete(return_coarse))]
  ELSE [r |-> Metal_r, z |-> RaisedZ(return_coarse)]

\* r[1::return_coarse], z[1::return_coarse]: the first point dropped, not the last
VacuumVesselSecondWallCoordinates_from1(return_coarse) ==
  [r |-> [j \in 1..CeilDiv(Len(Second_r) - 1, return_coarse) |->
            At(Second_r, 1 + (j - 1) * return_coarse)],
   z |-> [j \in 1..CeilDiv(Len(Second_z) - 1, return_coarse) |->
            At(Second_z, 1 + (j - 1) * return_coarse)]]

\* r[:-1:return_coarse], z[:-1:return_coarse]
VacuumVesselSecondWallCoordinates(return_coarse) ==
  [r |-> Slice(Second_r, Len(Second_r) - 1, return_coarse),
   z |-> Slice(Second_z, Len(Second_z) - 1, return_coarse)]

\* r[::return_coarse], z[::return_coarse]
VacuumVesselFirstWallCoordinates(return_coarse) ==
  [r |-> Slice(First_r, Len(First_r), return_coarse),
   z |-> Slice(First_z, Len(First_z), return_coarse)]

----------------------------------------------------------------------------
(* Constants of main() *)

r0 == <<16960, 16960, 16960, 16960, 16960,
        39431, 82851, 119919, 119630, 83908, 43340>>
z0 == <<-54150, -36067, -17983, 18183, 36267,
        75741, 65398, 32752, -22336, -67269, -74665>>

r_sn == 15000
z_sn == 10000
r_c == 20000
z_c == 15000

dr == <<r_sn, r_sn, r_sn, r_sn, r_sn, r_c, r_c, r_c, r_c, r_c, r_c>>
\* dz as first assigned; main() reassigns it after the override
dz_half == <<z_sn, z_sn, z_sn, z_sn, z_sn, z_c, z_c, z_c, z_c, z_c, z_c>>

zl_override == <<-54150, -36067, -17983, 18183, 36267>>
\* zr[:5] with the digits of 3.6267 swapped
zr_override_typo == <<-36067, -17983, 18183, 36276, 54350>>
zr_override == <<-36067, -17983, 18183, 36267, 54350>>

R == 165000

\* box_dim = [3+.5, 10-.5, -6+.5, 6-.5]
box_dim == <<30000 + 5000, 100000 - 5000, -60000 + 5000, 60000 - 5000>>

\* cv1 with 69 for 68: a start point beyond the twelve solenoid points
cv1_ahead == <<57, 59, 61, 63, 65, 67, 69, 66, 64, 62, 60, 58, 60, 62, 64, 66>>
cv1 == <<57, 59, 61, 63, 65, 67, 68, 66, 64, 62, 60, 58, 60, 62, 64, 66>>
cv2 == <<59, 61, 63, 65, 67, 68, 66, 64, 62, 60, 58, 57, 59, 61, 63, 65>>

\* array with 77 for 76 in the last row
array_dup == << <<81, 70, -82, 80>>,
                <<82, 71, -83, 79>>,
                <<83, 72, -84, 78>>,
                <<84, 73, -85, 77>>,
                <<85, 74, 75, 77>> >>

array == << <<81, 70, -82, 80>>,
            <<82, 71, -83, 79>>,
            <<83, 72, -84, 78>>,
            <<84, 73, -85, 77>>,
            <<85, 74, 75, 76>> >>

\* count = len(rlim) + 7, which is 41 for the default level only
circle_count_wall == Len(rlim) + 7

\* count = 41 before the three circle points
circle_count == 41

\* 832+d
CoilTag_shifted(dd) == 832 + dd

\* the tag of Physical Surface "coil<d>"
CoilTag(dd) == 831 + dd

\* count = line_count + 5: the first coil rectangle takes the id of the last solenoid surface
CoilBase_low(lc) == lc + 5

\* count = line_count + 6, the id of the first coil rectangle
CoilBase(lc) == lc + 6

----------------------------------------------------------------------------
(* Statements of the script *)

Stmt(kind, name, id, args) == [kind |-> kind, name |-> name, id |-> id, args |-> args]

RectangleStmt(id, x, y, w, h) ==
  Stmt("Rectangle", "", id, <<Fmt_f(x), Fmt_f(y), 0, Fmt_f(w), Fmt_f(h), 0>>)

PointStmt(id, r, z) == Stmt("Point", "", id, <<Fmt_f(r), Fmt_f(z), 0>>)

\* "Point(%d) = {0.0, %f, 0, 1.0};"
SizedPointStmt(id, z) == Stmt("Point", "", id, <<0, Fmt_f(z), 0, 1000000>>)

LineStmt(id, p1, p2) == Stmt("Line", "", id, <<p1, p2>>)

CurveLoopStmt(id, members) == Stmt("Curve Loop", "", id, members)

PlaneSurfaceStmt(id, loops) == Stmt("Plane Surface", "", id, loops)

\* the member without its sign
LoopMember_unsigned(a, lc) == Abs(a) - 70 + lc

\* a member of a solenoid loop: sign(a)*(abs(a) - 70 + line_count)
LoopMember(a, lc) == Sign(a) * (Abs(a) - 70 + lc)

\* lines 258..267
LiteralLoops ==
  << CurveLoopStmt(82, <<157, -158>>),
     CurveLoopStmt(83, <<24, 25, 22, 23>>),
     CurveLoopStmt(84, <<28, 29, 26, 27>>),
     CurveLoopStmt(85, <<32, 33, 30, 31>>),
     CurveLoopStmt(86, <<36, 37, 34, 35>>),
     CurveLoopStmt(87, <<39, 40, 41, 38>>),
     CurveLoopStmt(88, <<42, 43, 44, 45>>),
     CurveLoopStmt(89, <<17, 6, 7, 8, 9, 10, 11, 12, 13, 14, 15, 16>>),
     CurveLoopStmt(90, <<4, 1, 2, 3>>),
     PlaneSurfaceStmt(18, <<82, 83, 84, 85, 86, 87, 88, 89, 90>>) >>

\* lines 273..276
FixedGroups ==
  << Stmt("Physical Surface", "exact", 1100, <<1>>),
     Stmt("Physical Curve", "boundary", 831, <<157>>),
     Stmt("Physical Curve", "axis", 900, <<158>>),
     Stmt("Physical Curve", "box", 832, <<3, 2, 1, 4>>) >>

\* 'coil%d' % d
CoilName(dd) ==
  <<"coil1", "coil2", "coil3", "coil4", "coil5", "coil6",
    "coil7", "coil8", "coil9", "coil10", "coil11">>[dd]

----------------------------------------------------------------------------
(* main() *)

NoFile == [exists |-> FALSE, content |-> <<>>]
NoRun  == [completed |-> FALSE, out |-> <<>>, rlim |-> <<>>, zlim |-> <<>>]
NoCall == [fn |-> "none", return_coarse |-> 0, returned |-> FALSE, r |-> <<>>, z |-> <<>>]

Init ==
  /\ pc = "derive"
  /\ rr = <<>> /\ zr = <<>> /\ rl = <<>> /\ zl = <<>> /\ dz = dz_half
  /\ rlim = <<>> /\ zlim = <<>>
  /\ stuff = <<>>
  /\ count = 0 /\ count_ = 0 /\ first_line = 0 /\ key = 0 /\ line_count = 0
  /\ i = 0 /\ d = 0
  /\ file = NoFile
  /\ gid = "none" /\ opens = 0 /\ writes = 0 /\ closes = 0 /\ err = FALSE
  /\ run = 1 /\ file0 = NoFile /\ prev = NoRun
  /\ call = NoCall

\* lines 185..188
DeriveHalfExtents ==
  /\ pc = "derive"
  /\ rr' = [k \in 1..11 |-> r0[k] + dr[k] \div 2]
  /\ zr' = [k \in 1..11 |-> z0[k] + dz[k] \div 2]
  /\ rl' = [k \in 1..11 |-> r0[k] - dr[k] \div 2]
  /\ zl' = [k \in 1..11 |-> z0[k] - dz[k] \div 2]
  /\ pc' = "override"
  /\ UNCHANGED <<dz, wallVars, stuff, cntVars, fileVars, runVars, call>>

\* lines 190..193
OverrideSolenoid ==
  /\ pc = "override"
  /\ zl' = SetPrefix(zl, zl_override)
  /\ zr' = SetPrefix(zr, zr_override)
  /\ dz' = [k \in 1..11 |-> zr'[k] - zl'[k]]
  /\ pc' = "walls"
  /\ UNCHANGED <<rr, rl, wallVars, stuff, cntVars, fileVars, runVars, call>>

\* line 198.  main() passes no argument, so the level is the default 3; the
\* level is drawn from 1..MaxLevel so that runs with different wall tables exist.
ComputeMetalWall ==
  /\ pc = "walls"
  /\ \E return_coarse \in 1..MaxLevel :
       /\ rlim' = VacuumVesselMetalWallCoordinates(return_coarse).r
       /\ zlim' = VacuumVesselMetalWallCoordinates(return_coarse).z
  /\ pc' = "rect"
  /\ UNCHANGED <<layoutVars, stuff, cntVars, fileVars, runVars, call>>

\* lines 200..212
EmitBox ==
  /\ pc = "rect"
  /\ count' = 1
  /\ stuff' = << Stmt("SetFactory", "OpenCASCADE", 0, <<>>),
                 RectangleStmt(count', box_dim[1], box_dim[3],
                               box_dim[2] - box_dim[1], box_dim[4] - box_dim[3]) >>
  /\ first_line' = count' + 4
  /\ key' = first_line'
  /\ count_' = first_line'
  /\ i' = 0
  /\ pc' = "solpts"
  /\ UNCHANGED <<layoutVars, wallVars, line_count, d, fileVars, runVars, call>>

\* lines 213..217, one iteration; the loop variable keeps its last value 4
SolenoidPoints ==
  /\ pc = "solpts"
  /\ stuff' = stuff \o << PointStmt(count_, At(rl, i), At(zl, i)),
                          PointStmt(count_ + 1, At(rr, i), At(zl, i)) >>
  /\ count_' = count_ + 2
  /\ IF i < 4 THEN i' = i + 1 /\ pc' = pc
              ELSE i' = i /\ pc' = "soltop"
  /\ UNCHANGED <<layoutVars, wallVars, count, first_line, key, line_count, d,
                 fileVars, runVars, call>>

\* lines 218..226
SolenoidTop ==
  /\ pc = "soltop"
  /\ stuff' = stuff \o << PointStmt(count_, At(rl, i), At(zr, i)),
                          PointStmt(count_ + 1, At(rr, i), At(zr, i)) >>
  /\ count_' = first_line
  /\ line_count' = key + 1
  /\ i' = 0
  /\ pc' = "lines"
  /\ UNCHANGED <<layoutVars, wallVars, count, first_line, key, d, fileVars, runVars, call>>

\* lines 227..228, one iteration
EmitLine ==
  /\ pc = "lines"
  /\ stuff' = Append(stuff, LineStmt(i + line_count,
                                     At(cv1, i) - 57 + count_, At(cv2, i) - 57 + count_))
  /\ IF i < Len(cv1) - 1 THEN i' = i + 1 /\ pc' = pc
                         ELSE i' = 0 /\ pc' = "loops"
  /\ UNCHANGED <<layoutVars, wallVars, count, count_, first_line, key, line_count, d,
                 fileVars, runVars, call>>

\* lines 235..243, one iteration; after the last one count = line_count + 6
EmitSolenoidLoop ==
  /\ pc = "loops"
  /\ stuff' = stuff \o
       << CurveLoopStmt(i + line_count,
                        [k \in 1..4 |-> LoopMember(At(array, i)[k], line_count)]),
          PlaneSurfaceStmt(i + line_count + 1, <<i + line_count>>) >>
  /\ IF i < 4 THEN i' = i + 1 /\ pc' = pc /\ count' = count
              ELSE i' = 5 /\ pc' = "coils" /\ count' = CoilBase(line_count)
  /\ UNCHANGED <<layoutVars, wallVars, count_, first_line, key, line_count, d,
                 fileVars, runVars, call>>

\* lines 244..246, one iteration
EmitCoil ==
  /\ pc = "coils"
  /\ stuff' = Append(stuff, RectangleStmt(count, At(rl, i), At(zl, i), At(dr, i), At(dz, i)))
  /\ count' = count + 1
  /\ IF i < Len(rl) - 1 THEN i' = i + 1 /\ pc' = pc
                        ELSE i' = i /\ pc' = "circle"
  /\ UNCHANGED <<layoutVars, wallVars, count_, first_line, key, line_count, d,
                 fileVars, runVars, call>>

\* lines 248..256
EmitCircle ==
  /\ pc = "circle"
  /\ count' = circle_count
  /\ stuff' = stuff \o
       << SizedPointStmt(count', R),
          SizedPointStmt(count' + 1, 0),
          SizedPointStmt(count' + 2, -R),
          Stmt("Circle", "", 157, <<count', count' + 1, count' + 2>>),
          Stmt("blank", "", 0, <<>>),
          LineStmt(158, count', count' + 2) >>
  /\ pc' = "litloops"
  /\ UNCHANGED <<layoutVars, wallVars, count_, first_line, key, line_count, i, d,
                 fileVars, runVars, call>>

\* lines 258..267
EmitLiteralLoops ==
  /\ pc = "litloops"
  /\ stuff' = stuff \o LiteralLoops
  /\ pc' = "interior"
  /\ UNCHANGED <<layoutVars, wallVars, cntVars, fileVars, runVars, call>>

\* line 270
EmitInterior ==
  /\ pc = "interior"
  /\ stuff' = Append(stuff, Stmt("Physical Surface", "interior", 2000, <<18>>))
  /\ d' = 1
  /\ pc' = "coilgroups"
  /\ UNCHANGED <<layoutVars, wallVars, count, count_, first_line, key, line_count, i,
                 fileVars, runVars, call>>

\* lines 271..272, one iteration
EmitCoilGroup ==
  /\ pc = "coilgroups"
  /\ stuff' = Append(stuff, Stmt("Physical Surface", CoilName(d), CoilTag(d), <<6 + d>>))
  /\ IF d < 11 THEN d' = d + 1 /\ pc' = pc
               ELSE d' = d /\ pc' = "fixedgroups"
  /\ UNCHANGED <<layoutVars, wallVars, count, count_, first_line, key, line_count, i,
                 fileVars, runVars, call>>

\* lines 273..276
EmitFixedGroups ==
  /\ pc = "fixedgroups"
  /\ stuff' = stuff \o FixedGroups
  /\ pc' = "open"
  /\ UNCHANGED <<layoutVars, wallVars, cntVars, fileVars, runVars, call>>

\* the with-statement one statement group too early: before lines 273..276
Open_early ==
  /\ pc \in {"fixedgroups", "open"}
  /\ file' = [exists |-> TRUE, content |-> <<>>]
  /\ gid' = "open"
  /\ opens' = opens + 1
  /\ pc' = "write"
  /\ UNCHANGED <<layoutVars, wallVars, stuff, cntVars, writes, closes, err, runVars, call>>

\* line 281: open(write_file, 'w') creates or truncates the destination
Open ==
  /\ pc = "open"
  /\ file' = [exists |-> TRUE, content |-> <<>>]
  /\ gid' = "open"
  /\ opens' = opens + 1
  /\ pc' = "write"
  /\ UNCHANGED <<layoutVars, wallVars, stuff, cntVars, writes, closes, err, runVars, call>>

\* line 281: open raises (the directory meshes/ is missing, no permission)
OpenFails ==
  /\ pc = "open"
  /\ pc' = "failed"
  /\ UNCHANGED <<layoutVars, wallVars, stuff, cntVars, fileVars, runVars, call>>

\* line 282
Write ==
  /\ pc = "write"
  /\ gid = "open"
  /\ file' = [file EXCEPT !.content = @ \o stuff]
  /\ writes' = writes + 1
  /\ pc' = "close"
  /\ UNCHANGED <<layoutVars, wallVars, stuff, cntVars, gid, opens, closes, err, runVars, call>>

\* line 282 raises: the with-statement still closes the handle
WriteFails ==
  /\ pc = "write"
  /\ gid = "open"
  /\ err' = TRUE
  /\ pc' = "close"
  /\ UNCHANGED <<layoutVars, wallVars, stuff, cntVars, file, gid, opens, writes, closes,
                 runVars, call>>

\* leaving the with-block of line 281
Close ==
  /\ pc = "close"
  /\ gid = "open"
  /\ gid' = "closed"
  /\ closes' = closes + 1
  /\ pc' = IF err THEN "failed" ELSE "done"
  /\ UNCHANGED <<layoutVars, wallVars, stuff, cntVars, file, opens, writes, err, runVars, call>>

PreOpen == {"derive", "override", "walls", "rect", "solpts", "soltop", "lines", "loops",
            "coils", "circle", "litloops", "interior", "coilgroups", "fixedgroups"}

\* an exception in lines 171..276 propagates out of main(): nothing catches it
Abort ==
  /\ pc \in PreOpen
  /\ pc' = "failed"
  /\ UNCHANGED <<layoutVars, wallVars, stuff, cntVars, fileVars, runVars, call>>

\* the script is run again (line 286); the destination is what the last run left
Rerun ==
  /\ pc \in {"done", "failed"}
  /\ run < MaxRuns
  /\ run' = run + 1
  /\ file0' = file
  /\ prev' = IF pc = "done"
              THEN [completed |-> TRUE, out |-> file.content, rlim |-> rlim, zlim |-> zlim]
              ELSE prev
  /\ pc' = "derive"
  /\ rr' = <<>> /\ zr' = <<>> /\ rl' = <<>> /\ zl' = <<>> /\ dz' = dz_half
  /\ rlim' = <<>> /\ zlim' = <<>>
  /\ stuff' = <<>>
  /\ count' = 0 /\ count_' = 0 /\ first_line' = 0 /\ key' = 0 /\ line_count' = 0
  /\ i' = 0 /\ d' = 0
  /\ gid' = "none" /\ opens' = 0 /\ writes' = 0 /\ closes' = 0 /\ err' = FALSE
  /\ UNCHANGED <<file, call>>

Next ==
  \/ DeriveHalfExtents
  \/ OverrideSolenoid
  \/ ComputeMetalWall
  \/ EmitBox
  \/ SolenoidPoints
  \/ SolenoidTop
  \/ EmitLine
  \/ EmitSolenoidLoop
  \/ EmitCoil
  \/ EmitCircle
  \/ EmitLiteralLoops
  \/ EmitInterior
  \/ EmitCoilGroup
  \/ EmitFixedGroups
  \/ Open
  \/ OpenFails
  \/ Write
  \/ WriteFails
  \/ Close
  \/ Abort
  \/ Rerun

Spec == Init /\ [][Next]_vars

----------------------------------------------------------------------------
(* The wall functions called on their own *)

mainVars == <<pc, layoutVars, wallVars, stuff, cntVars, fileVars, runVars>>

WallFunctions == {"metal", "second", "first"}

\* the module is loaded, main() is not running; one wall function is about to
\* be called with a coarseness in 1..MaxCoarse
InitWall ==
  /\ pc = "lib"
  /\ rr = <<>> /\ zr = <<>> /\ rl = <<>> /\ zl = <<>> /\ dz = <<>>
  /\ rlim = <<>> /\ zlim = <<>>
  /\ stuff = <<>>
  /\ count = 0 /\ count_ = 0 /\ first_line = 0 /\ key = 0 /\ line_count = 0
  /\ i = 0 /\ d = 0
  /\ file = NoFile
  /\ gid = "none" /\ opens = 0 /\ writes = 0 /\ closes = 0 /\ err = FALSE
  /\ run = 0 /\ file0 = NoFile /\ prev = NoRun
  /\ call \in {[fn |-> f, return_coarse |-> c, returned |-> FALSE, r |-> <<>>, z |-> <<>>] :
                 f \in WallFunctions, c \in 1..MaxCoarse}

Return(res) == [call EXCEPT !.returned = TRUE, !.r = res.r, !.z = res.z]

CallMetalWall ==
  /\ call.fn = "metal" /\ ~call.returned
  /\ call' = Return(VacuumVesselMetalWallCoordinates(call.return_coarse))
  /\ UNCHANGED mainVars

CallSecondWall ==
  /\ call.fn = "second" /\ ~call.returned
  /\ call' = Return(VacuumVesselSecondWallCoordinates(call.return_coarse))
  /\ UNCHANGED mainVars

CallFirstWall ==
  /\ call.fn = "first" /\ ~call.returned
  /\ call' = Return(VacuumVesselFirstWallCoordinates(call.return_coarse))
  /\ UNCHANGED mainVars

NextWall ==
  \/ CallMetalWall
  \/ CallSecondWall
  \/ CallFirstWall

SpecWall == InitWall /\ [][NextWall]_vars

----------------------------------------------------------------------------
(* What the geometry kernel makes of a script: the entities that exist     *)
(* after a sequence of statements.  A Rectangle creates four points and    *)
(* four curves with the next ids after the highest id in use; its curves   *)
(* run bottom, right, top, left around its corners.                        *)

Range(s) == {s[k] : k \in 1..Len(s)}

MaxId(S) == IF S = {} THEN 0 ELSE CHOOSE m \in S : \A x \in S : x <= m

NoEntities == [pts |-> {}, cvs |-> {}, loops |-> {}, srf |-> {}]

CurveIds(k) == {c.id : c \in k.cvs}

Curve(id, from, to) == [id |-> id, from |-> from, to |-> to]

Create(k, s) ==
  CASE s.kind = "Point" -> [k EXCEPT !.pts = @ \cup {s.id}]
    [] s.kind = "Line" -> [k EXCEPT !.cvs = @ \cup {Curve(s.id, s.args[1], s.args[2])}]
    [] s.kind = "Circle" -> [k EXCEPT !.cvs = @ \cup {Curve(s.id, s.args[1], s.args[3])}]
    [] s.kind = "Rectangle" ->
         LET p == MaxId(k.pts)
             c == MaxId(CurveIds(k))
         IN  [k EXCEPT !.pts = @ \cup (p + 1..p + 4),
                       !.cvs = @ \cup {Curve(c + 1, p + 1, p + 2), Curve(c + 2, p + 2, p + 3),
                                       Curve(c + 3, p + 3, p + 4), Curve(c + 4, p + 4, p + 1)},
                       !.srf = @ \cup {s.id}]
    [] s.kind = "Curve Loop" -> [k EXCEPT !.loops = @ \cup {s.id}]
    [] s.kind = "Plane Surface" -> [k EXCEPT !.srf = @ \cup {s.id}]
    [] OTHER -> k

\* every id statement s refers to exists in k
RefsExist(k, s) ==
  CASE s.kind \in {"Line", "Circle"} -> Range(s.args) \subseteq k.pts
    [] s.kind \in {"Curve Loop", "Physical Curve"} ->
         {Abs(m) : m \in Range(s.args)} \subseteq CurveIds(k)
    [] s.kind = "Plane Surface" -> Range(s.args) \subseteq k.loops
    [] s.kind = "Physical Surface" -> Range(s.args) \subseteq k.srf
    [] OTHER -> TRUE

CurveOf(k, m) == CHOOSE c \in k.cvs : c.id = Abs(m)
StartOf(k, m) == IF m > 0 THEN CurveOf(k, m).from ELSE CurveOf(k, m).to
EndOf(k, m)   == IF m > 0 THEN CurveOf(k, m).to ELSE CurveOf(k, m).from

\* the signed member list ms is a closed path of curves of k
Closed(k, ms) ==
  /\ Len(ms) > 0
  /\ \A j \in 1..Len(ms) : Abs(ms[j]) \in CurveIds(k)
  /\ \A j \in 1..Len(ms) : EndOf(k, ms[j]) = StartOf(k, ms[(j % Len(ms)) + 1])

EntityClass(s) ==
  CASE s.kind = "Point" -> "point"
    [] s.kind \in {"Line", "Circle"} -> "curve"
    [] s.kind = "Curve Loop" -> "loop"
    [] s.kind \in {"Rectangle", "Plane Surface"} -> "surface"
    [] OTHER -> "none"

\* reading the statements from the n-th on, the kernel holding k: every
\* statement refers only to what exists when it is read
RECURSIVE RefsExistFrom(_, _)
RefsExistFrom(k, n) ==
  \/ n > Len(stuff)
  \/ /\ RefsExist(k, stuff[n])
     /\ RefsExistFrom(Create(k, stuff[n]), n + 1)

\* the same reading: every Curve Loop is closed when it is read
RECURSIVE LoopsClosedFrom(_, _)
LoopsClosedFrom(k, n) ==
  \/ n > Len(stuff)
  \/ /\ stuff[n].kind = "Curve Loop" => Closed(k, stuff[n].args)
     /\ LoopsClosedFrom(Create(k, stuff[n]), n + 1)

Emitted(kind, id) == \E n \in 1..Len(stuff) : stuff[n].kind = kind /\ stuff[n].id = id
Named(name) == {n \in 1..Len(stuff) : stuff[n].name = name}

\* the last statement, the "box" Physical Curve, is in the buffer
Complete(s) == Len(s) > 0 /\ s[Len(s)] = FixedGroups[Len(FixedGroups)]

----------------------------------------------------------------------------
(* Claims *)

\* C1: no two emitted entities of the same kind (points; Line and Circle
\* curves; curve loops; Rectangle and Plane Surface surfaces) share an id.
C1_UniqueIds ==
  \A a, b \in 1..Len(stuff) :
    (a # b /\ EntityClass(stuff[a]) # "none" /\ EntityClass(stuff[a]) = EntityClass(stuff[b]))
      => stuff[a].id # stuff[b].id

C1_Witness ==
  /\ pc = "done"
  /\ Emitted("Rectangle", 1) /\ Emitted("Plane Surface", 18)
  /\ Cardinality({n \in 1..Len(stuff) : EntityClass(stuff[n]) # "none"}) = 60

\* C2: every emitted Curve Loop is a closed path: each member's end point is
\* the next member's start point, the last member's end point is the first
\* member's start point, a negative sign reversing the member.
C2_LoopsClosed == LoopsClosedFrom(NoEntities, 1)

C2_Witness ==
  /\ pc = "done"
  /\ Cardinality({n \in 1..Len(stuff) : stuff[n].kind = "Curve Loop"}) = 14

\* C3 as stated: for every N in 1..11 exactly one Physical Surface "coilN"
\* is emitted, bound to surface 6+N, with tag 832+N.
C3_Original ==
  Complete(stuff) =>
    \A N \in 1..11 :
      /\ Cardinality(Named(CoilName(N))) = 1
      /\ \A n \in Named(CoilName(N)) :
           /\ stuff[n].kind = "Physical Surface"
           /\ stuff[n].args = <<6 + N>>
           /\ stuff[n].id = 832 + N

\* C3 amended: for every N in 1..11 exactly one Physical Surface "coilN" is
\* emitted, bound to surface 6+N, with tag 831+N (tags 832..842).
C3_CoilGroups ==
  Complete(stuff) =>
    \A N \in 1..11 :
      /\ Cardinality(Named(CoilName(N))) = 1
      /\ \A n \in Named(CoilName(N)) :
           /\ stuff[n].kind = "Physical Surface"
           /\ stuff[n].args = <<6 + N>>
           /\ stuff[n].id = 831 + N

C3_Witness == pc = "done" /\ Complete(stuff) /\ Named("coil11") # {}

\* C6: after the layout derivation zr[i] = zl[i+1] for i in 0..3, and the 12
\* solenoid points are exactly the corners of the five solenoid segments.
SolenoidPointCoords ==
  {<<stuff[n].args[1], stuff[n].args[2]>> :
     n \in {m \in 1..Len(stuff) : stuff[m].kind = "Point" /\ stuff[m].id \in 5..16}}

SegmentCorners ==
  UNION {{<<Fmt_f(At(rl, k)), Fmt_f(At(zl, k))>>, <<Fmt_f(At(rr, k)), Fmt_f(At(zl, k))>>,
          <<Fmt_f(At(rl, k)), Fmt_f(At(zr, k))>>, <<Fmt_f(At(rr, k)), Fmt_f(At(zr, k))>>} :
         k \in 0..4}

\* line 193 has run: dz holds the segment heights
LayoutDerived == dz # dz_half /\ Len(zl) = 11 /\ Len(zr) = 11

C6_SolenoidStack ==
  /\ LayoutDerived => \A k \in 0..3 : At(zr, k) = At(zl, k + 1)
  /\ Emitted("Point", 16) =>
       /\ Cardinality({m \in 1..Len(stuff) :
                         stuff[m].kind = "Point" /\ stuff[m].id \in 5..16}) = 12
       /\ Cardinality(SolenoidPointCoords) = 12
       /\ SolenoidPointCoords = SegmentCorners

C6_Witness == pc = "lines" /\ i = 0 /\ LayoutDerived /\ Emitted("Point", 16)

\* C7: no statement refers to a point, curve, curve loop or surface that an
\* earlier statement has not created (explicitly, or as one of the points
\* and curves of an earlier Rectangle).
C7_NoForwardReference == RefsExistFrom(NoEntities, 1)

C7_Witness ==
  /\ Complete(stuff)
  /\ \E n \in 1..Len(stuff) : stuff[n].kind = "Curve Loop" /\ stuff[n].id = 88

\* C8: the destination is opened at most once and only when the buffer is
\* complete, gets the whole buffer in one write and is closed once; a run
\* that fails before the open leaves the destination as it found it.
C8_SingleWrite ==
  /\ opens <= 1 /\ writes <= 1 /\ closes <= 1
  /\ writes <= opens /\ closes <= opens
  /\ opens = 0 => file = file0
  /\ opens = 1 => Complete(stuff)
  /\ writes = 1 => file = [exists |-> TRUE, content |-> stuff]
  /\ pc = "done" => opens = 1 /\ writes = 1 /\ closes = 1 /\ gid = "closed"
  /\ (pc = "failed" /\ opens = 1) => closes = 1 /\ gid = "closed"
  /\ gid = "open" <=> pc \in {"write", "close"}

C8_Witness ==
  /\ pc = "failed" /\ opens = 0 /\ stuff # <<>> /\ ~Complete(stuff)
  /\ run = 2 /\ prev.completed
  /\ file0.exists /\ Complete(file0.content) /\ file = file0

\* C9: the emitted text does not depend on the wall tables: a run emits what
\* an earlier completed run emitted, whatever the two metal-wall contours.
C9_WallIndependent ==
  (pc = "done" /\ prev.completed) => file.content = prev.out

C9_Witness ==
  /\ pc = "done" /\ prev.completed
  /\ Len(rlim) = 34 /\ Len(prev.rlim) = 56

\* C10: each dividing line 18..21 is in exactly two solenoid loops, once
\* positive and once negative; each line 6..17 is in exactly one solenoid
\* loop; Curve Loop 89 is exactly the lines 6..17, each once.
SolenoidLoops == {n \in 1..Len(stuff) : stuff[n].kind = "Curve Loop" /\ stuff[n].id \in 6..10}

Occurrences(m) ==
  {<<n, j>> \in SolenoidLoops \X (1..4) : j <= Len(stuff[n].args) /\ stuff[n].args[j] = m}

C10_SolenoidLoopMembers ==
  Emitted("Curve Loop", 89) =>
    /\ Cardinality(SolenoidLoops) = 5
    /\ \A l \in 6..21 : Emitted("Line", l)
    /\ \A l \in 18..21 :
         /\ Cardinality(Occurrences(l)) = 1
         /\ Cardinality(Occurrences(-l)) = 1
         /\ \A x \in Occurrences(l), y \in Occurrences(-l) : x[1] # y[1]
    /\ \A l \in 6..17 : Cardinality(Occurrences(l) \cup Occurrences(-l)) = 1
    /\ \A n \in 1..Len(stuff) :
         (stuff[n].kind = "Curve Loop" /\ stuff[n].id = 89) =>
           /\ Len(stuff[n].args) = 12
           /\ Range(stuff[n].args) = 6..17

C10_Witness == pc = "done" /\ Emitted("Curve Loop", 89) /\ Emitted("Curve Loop", 10)

\* C4 as stated: with stride 4 the outer-wall function works on a 143-point
\* table and returns ceil(142/4) points in r and in z.
C4_Original ==
  (call.fn = "second" /\ call.returned /\ call.return_coarse = 4) =>
    /\ Len(Second_r) = 143 /\ Len(Second_z) = 143
    /\ Len(call.r) = CeilDiv(142, 4) /\ Len(call.z) = CeilDiv(142, 4)

\* C4 amended: with stride 4 the outer-wall function works on a 152-point
\* table and returns ceil(151/4) = 38 points in r and in z, the points at
\* the indices 0, 4, .., 148; the final point, index 151, is not returned.
C4_SecondWallStride4 ==
  (call.fn = "second" /\ call.returned /\ call.return_coarse = 4) =>
    /\ Len(Second_r) = 152 /\ Len(Second_z) = 152
    /\ Len(call.r) = 38 /\ Len(call.z) = 38
    /\ \A j \in 0..37 : /\ 4 * j < 151
                        /\ At(call.r, j) = At(Second_r, 4 * j)
                        /\ At(call.z, j) = At(Second_z, 4 * j)

C4_Witness == call.fn = "second" /\ call.returned /\ call.return_coarse = 4 /\ call.r # <<>>

\* C5: with coarseness 3 the metal-wall function returns 34 of the 56 points
\* in their original order, and the returned z at index 18 is the table's
\* z[18] plus 0.2.
KeptAt3 == <<0, 1, 2, 3, 4, 5, 6, 7, 8, 9, 10, 11, 12, 13, 14, 15, 16, 17, 18, 19,
             22, 24, 26, 32, 33, 35, 37, 39, 41, 42, 48, 51, 53, 55>>

C5_MetalWallLevel3 ==
  (call.fn = "metal" /\ call.returned /\ call.return_coarse = 3) =>
    /\ Len(Metal_r) = 56 /\ Len(Metal_z) = 56
    /\ Len(call.r) = 34 /\ Len(call.z) = 34
    /\ \A j \in 0..33 :
         /\ At(call.r, j) = At(Metal_r, At(KeptAt3, j))
         /\ At(KeptAt3, j) # 18 => At(call.z, j) = At(Metal_z, At(KeptAt3, j))
    /\ At(call.z, 18) = At(Metal_z, 18) + 2000

C5_Witness == call.fn = "metal" /\ call.returned /\ call.return_coarse = 3 /\ call.r # <<>>

====
